---- MODULE Spec2Model ----
(***************************************************************************)
(* A model of voice_generator.py: the VoiceVox batch voice generator.      *)
(*                                                                         *)
(* Python strings are sequences of Unicode code points (natural numbers);  *)
(* the word a sequence spells is given in the comment beside it.           *)
(***************************************************************************)
EXTENDS Integers, Sequences, FiniteSets, TLC

VARIABLES
    text,             \* EmotionAnalyzer.analyze: the text argument
    available_styles, \* EmotionAnalyzer.analyze: the available_styles argument
    analyzed,         \* what the last call of analyze returned (None before it)
    backend_up,       \* environment: the VoiceVox engine answers its HTTP requests
    speaker_styles,   \* self.speaker_styles
    excel_reader,     \* self.excel_reader
    start_row,        \* self.start_row
    voice_combos,     \* self.voice_combos, in insertion order
    auto_emotion,     \* self.auto_emotion
    output_path,      \* self.output_path
    generate_btn,     \* state of self.generate_btn
    status_label,     \* text of self.status_label
    dirs,             \* file system: the directories that exist
    files,            \* file system: the files written, as <<directory, name>>
    dialog,           \* the last message box shown
    workers,          \* the generate_all threads started so far
    previews,         \* the generate_preview threads started so far
    cancel_requested  \* environment: the user has asked for the batch to stop

vars == <<text, available_styles, analyzed, backend_up, speaker_styles,
          excel_reader, start_row, voice_combos, auto_emotion, output_path,
          generate_btn, status_label, dirs, files, dialog, workers, previews,
          cancel_requested>>

-----------------------------------------------------------------------------
(* Python values *)

\* Python's None
None == [type |-> "NoneType"]

\* a Python str holding the code points s
PyStr(s) == [type |-> "str", value |-> s]

\* a Python int
PyInt(n) == [type |-> "int", value |-> n]

\* bool(v) of a cell value: None, "" and 0 are false
Truthy(v) ==
    CASE v.type = "NoneType" -> FALSE
      [] v.type = "str" -> v.value # <<>>
      [] v.type = "int" -> v.value # 0

\* the decimal digits of a natural number below 100
Digits(n) == IF n < 10 THEN <<48 + n>> ELSE <<48 + (n \div 10), 48 + (n % 10)>>

\* str(v) of a cell value
Str(v) ==
    CASE v.type = "NoneType" -> <<78, 111, 110, 101>>   \* "None"
      [] v.type = "str" -> v.value
      [] v.type = "int" -> Digits(v.value)

\* code points str.strip() removes: tab, LF, VT, FF, CR, FS..US, space, NEL,
\* NBSP and the ideographic space
Whitespace == {9, 10, 11, 12, 13, 28, 29, 30, 31, 32, 133, 160, 12288}

RECURSIVE LStrip(_)
LStrip(s) == IF s # <<>> /\ Head(s) \in Whitespace THEN LStrip(Tail(s)) ELSE s

RECURSIVE RStrip(_)
RStrip(s) ==
    IF s # <<>> /\ s[Len(s)] \in Whitespace THEN RStrip(SubSeq(s, 1, Len(s) - 1)) ELSE s

\* s.strip()
Strip(s) == RStrip(LStrip(s))

\* c.lower() of one code point: the Latin capitals
LowerChar(c) == IF c \in 65..90 THEN c + 32 ELSE c

\* s.lower()
Lower(s) == [i \in 1..Len(s) |-> LowerChar(s[i])]

\* k in t, for strings
Contains(t, k) == \E i \in 0..(Len(t) - Len(k)) : SubSeq(t, i + 1, i + Len(k)) = k

\* s.endswith(suffix)
EndsWith(s, suffix) ==
    /\ Len(s) >= Len(suffix)
    /\ SubSeq(s, Len(s) - Len(suffix) + 1, Len(s)) = suffix

\* the concatenation of a sequence of sequences
RECURSIVE Flatten(_)
Flatten(ss) == IF ss = <<>> THEN <<>> ELSE Head(ss) \o Flatten(Tail(ss))

\* the indices of 1..n that are in the set S, in increasing order
SelectIndices(n, S) ==
    LET RECURSIVE upto(_)
        upto(k) == IF k = 0 THEN <<>>
                   ELSE IF k \in S THEN Append(upto(k - 1), k) ELSE upto(k - 1)
    IN upto(n)

-----------------------------------------------------------------------------
(* EMOTION_KEYWORDS, in declaration order *)

EMOTION_KEYWORDS ==
    << \* あまあま: 好き 大好き 愛してる 嬉しい 幸せ ありがとう 素敵 可愛い 優しい ♡ ♥ にこ わーい やったー
       [emotion |-> <<12354, 12414, 12354, 12414>>,
        keywords |-> <<
            <<22909, 12365>>,
            <<22823, 22909, 12365>>,
            <<24859, 12375, 12390, 12427>>,
            <<23305, 12375, 12356>>,
            <<24184, 12379>>,
            <<12354, 12426, 12364, 12392, 12358>>,
            <<32032, 25973>>,
            <<21487, 24859, 12356>>,
            <<20778, 12375, 12356>>,
            <<9825>>,
            <<9829>>,
            <<12395, 12371>>,
            <<12431, 12540, 12356>>,
            <<12420, 12387, 12383, 12540>>
        >>],
       \* ツンツン: べ、別に バカ ばか アホ あほ うるさい 知らない 嫌い ふん はぁ？ なによ ちがう 違う 勘違い
       [emotion |-> <<12484, 12531, 12484, 12531>>,
        keywords |-> <<
            <<12409, 12289, 21029, 12395>>,
            <<12496, 12459>>,
            <<12400, 12363>>,
            <<12450, 12507>>,
            <<12354, 12411>>,
            <<12358, 12427, 12373, 12356>>,
            <<30693, 12425, 12394, 12356>>,
            <<23244, 12356>>,
            <<12405, 12435>>,
            <<12399, 12353, 65311>>,
            <<12394, 12395, 12424>>,
            <<12385, 12364, 12358>>,
            <<36949, 12358>>,
            <<21208, 36949, 12356>>
        >>],
       \* セクシー: ふふ うふふ ねぇ ダメ だめ いけない 秘密 ひみつ 誘 触 キス 抱
       [emotion |-> <<12475, 12463, 12471, 12540>>,
        keywords |-> <<
            <<12405, 12405>>,
            <<12358, 12405, 12405>>,
            <<12397, 12359>>,
            <<12480, 12513>>,
            <<12384, 12417>>,
            <<12356, 12369, 12394, 12356>>,
            <<31192, 23494>>,
            <<12402, 12415, 12388>>,
            <<35480>>,
            <<35302>>,
            <<12461, 12473>>,
            <<25265>>
        >>],
       \* ささやき: しー 内緒 ないしょ こっそり 静かに 小声 ひそひそ
       [emotion |-> <<12373, 12373, 12420, 12365>>,
        keywords |-> <<
            <<12375, 12540>>,
            <<20869, 32210>>,
            <<12394, 12356, 12375, 12423>>,
            <<12371, 12387, 12381, 12426>>,
            <<38745, 12363, 12395>>,
            <<23567, 22768>>,
            <<12402, 12381, 12402, 12381>>
        >>],
       \* ヒソヒソ: しー 内緒 ないしょ こっそり 静かに 小声 ひそひそ
       [emotion |-> <<12498, 12477, 12498, 12477>>,
        keywords |-> <<
            <<12375, 12540>>,
            <<20869, 32210>>,
            <<12394, 12356, 12375, 12423>>,
            <<12371, 12387, 12381, 12426>>,
            <<38745, 12363, 12395>>,
            <<23567, 22768>>,
            <<12402, 12381, 12402, 12381>>
        >>],
       \* 怒り: 怒 許さない ゆるさない ふざけるな なんだと くそ クソ ちくしょう 畜生 殺 死ね
       [emotion |-> <<24594, 12426>>,
        keywords |-> <<
            <<24594>>,
            <<35377, 12373, 12394, 12356>>,
            <<12422, 12427, 12373, 12394, 12356>>,
            <<12405, 12374, 12369, 12427, 12394>>,
            <<12394, 12435, 12384, 12392>>,
            <<12367, 12381>>,
            <<12463, 12477>>,
            <<12385, 12367, 12375, 12423, 12358>>,
            <<30044, 29983>>,
            <<27578>>,
            <<27515, 12397>>
        >>],
       \* 悲しみ: 悲しい 寂しい さみしい 辛い つらい 泣 涙 ごめん すまない 申し訳
       [emotion |-> <<24754, 12375, 12415>>,
        keywords |-> <<
            <<24754, 12375, 12356>>,
            <<23490, 12375, 12356>>,
            <<12373, 12415, 12375, 12356>>,
            <<36763, 12356>>,
            <<12388, 12425, 12356>>,
            <<27875>>,
            <<28057>>,
            <<12372, 12417, 12435>>,
            <<12377, 12414, 12394, 12356>>,
            <<30003, 12375, 35379>>
        >>],
       \* 喜び: 嬉しい うれしい 楽しい たのしい わーい やった 最高 すごい 素晴らしい
       [emotion |-> <<21916, 12403>>,
        keywords |-> <<
            <<23305, 12375, 12356>>,
            <<12358, 12428, 12375, 12356>>,
            <<27005, 12375, 12356>>,
            <<12383, 12398, 12375, 12356>>,
            <<12431, 12540, 12356>>,
            <<12420, 12387, 12383>>,
            <<26368, 39640>>,
            <<12377, 12372, 12356>>,
            <<32032, 26228, 12425, 12375, 12356>>
        >>]
    >>

-----------------------------------------------------------------------------
(* EmotionAnalyzer *)

\* "ノーマル"
NORMAL_JA == <<12494, 12540, 12510, 12523>>

\* "normal"
NORMAL_EN == <<110, 111, 114, 109, 97, 108>>

\* [s[0] for s in available_styles]
StyleNames(styles) == [j \in 1..Len(styles) |-> styles[j][1]]

\* the score of one emotion: its keywords that occur in t
Score(keywords, t) ==
    Cardinality({j \in 1..Len(keywords) : Contains(t, keywords[j])})

\* the score of every emotion of the table, by its place in the table
AllScores(t) ==
    [e \in 1..Len(EMOTION_KEYWORDS) |-> Score(EMOTION_KEYWORDS[e].keywords, t)]

\* the keys of the scores dict, in insertion order
ScoredEmotions(sc) == SelectIndices(Len(EMOTION_KEYWORDS), {e \in DOMAIN sc : sc[e] > 0})

\* one insertion of a stable sort by score, highest first
RECURSIVE InsertByScore(_, _, _)
InsertByScore(sorted, e, sc) ==
    IF sorted = <<>> THEN <<e>>
    ELSE IF sc[Head(sorted)] >= sc[e]
         THEN <<Head(sorted)>> \o InsertByScore(Tail(sorted), e, sc)
         ELSE <<e>> \o sorted

\* a sort by score, lowest first, reversed afterwards: equal scores end last-declared first
RECURSIVE SortedReversed(_, _)
SortedReversed(items, sc) ==
    IF items = <<>> THEN <<>>
    ELSE LET rest == SortedReversed(Tail(items), sc)
         IN InsertByScore(rest, Head(items), sc)

\* sorted(scores.items(), key=lambda x: x[1], reverse=True): stable
RECURSIVE SortedEmotions(_, _)
SortedEmotions(items, sc) ==
    IF items = <<>> THEN <<>>
    ELSE InsertByScore(SortedEmotions(SubSeq(items, 1, Len(items) - 1), sc),
                       items[Len(items)], sc)

\* emotion in style_name or emotion.lower() in style_name.lower()
StyleMatches(emotion, style_name) ==
    \/ Contains(style_name, emotion)
    \/ Contains(Lower(style_name), Lower(emotion))

\* "ノーマル" in style_name or "normal" in style_name.lower()
IsNormalStyle(style_name) ==
    \/ Contains(style_name, NORMAL_JA)
    \/ Contains(Lower(style_name), NORMAL_EN)

\* the least index of the set S, or 0 when S is empty
FirstIndex(S) ==
    IF S # {} THEN CHOOSE j \in S : \A k \in S : j <= k ELSE 0

\* the fallback that always answers the placeholder
DefaultStylePlaceholder(names) == NORMAL_JA

\* the fallback that never looks for the normal voice
DefaultStyleFirst(names) == IF names # <<>> THEN names[1] ELSE NORMAL_JA

\* lines 133-138: the style of the normal voice, else the first style, else "ノーマル"
DefaultStyle(names) ==
    LET n == FirstIndex({j \in 1..Len(names) : IsNormalStyle(names[j])})
    IN IF n # 0 THEN names[n]
       ELSE IF names # <<>> THEN names[1] ELSE NORMAL_JA

\* lines 125-131: the first style matching the first emotion, in sorted order,
\* that matches any; <<>> when the loops end without a return
RECURSIVE EmotionStyle(_, _)
EmotionStyle(sorted_emotions, names) ==
    IF sorted_emotions = <<>> THEN <<>>
    ELSE LET emotion == EMOTION_KEYWORDS[Head(sorted_emotions)].emotion
             n == FirstIndex({j \in 1..Len(names) : StyleMatches(emotion, names[j])})
         IN IF n # 0 THEN <<names[n]>>
            ELSE EmotionStyle(Tail(sorted_emotions), names)

\* EmotionAnalyzer.analyze(text, available_styles)
analyze(t, styles) ==
    LET names == StyleNames(styles)
        sc == AllScores(t)
        found == EmotionStyle(SortedEmotions(ScoredEmotions(sc), sc), names)
    IN IF found # <<>> THEN found[1] ELSE DefaultStyle(names)

-----------------------------------------------------------------------------
(* ExcelReader *)

\* ExcelReader(file_path) after set_sheet: rows is the list of the sheet's rows,
\* each a tuple of cell values; before set_sheet cached_data is None, which
\* every use (not self.cached_data) treats as the empty list
ExcelReader(rows) == [type |-> "ExcelReader", cached_data |-> rows]

\* the columns select_sheet chooses, as _column_index gives them
char_column == 0

dialogue_column == 1

filename_column == 2

\* row[idx] if idx < len(row) else None
CellOrNone(row, idx) == IF idx < Len(row) THEN row[idx + 1] ELSE None

\* line 206: the row is one of character's
CharacterMatches(row, char_idx, character) ==
    /\ char_idx < Len(row)
    /\ Truthy(row[char_idx + 1])
    /\ Strip(Str(row[char_idx + 1])) = character

\* line 209: if dialogue and filename
RowHasText(dialogue, filename) == Truthy(dialogue) /\ Truthy(filename)

\* lines 210-213: the row appended
RowDict(dialogue, filename) ==
    [dialogue |-> Strip(Str(dialogue)), filename |-> Strip(Str(filename))]

\* lines 199-213 for the rows start_row..k of the sheet, first to last
RECURSIVE RowsUpTo(_, _, _, _, _, _, _)
RowsUpTo(data, k, char_idx, character, dialogue_idx, filename_idx, first) ==
    IF k < first THEN <<>>
    ELSE LET before == RowsUpTo(data, k - 1, char_idx, character,
                                dialogue_idx, filename_idx, first)
             row == data[k]
             dialogue == CellOrNone(row, dialogue_idx)
             filename == CellOrNone(row, filename_idx)
         IN IF CharacterMatches(row, char_idx, character)
               /\ RowHasText(dialogue, filename)
            THEN Append(before, RowDict(dialogue, filename))
            ELSE before

\* ExcelReader.get_rows_for_character; start_row is 1-based, at least 1
get_rows_for_character(reader, char_idx, character, dialogue_idx, filename_idx, first) ==
    IF reader.cached_data = <<>> THEN <<>>
    ELSE RowsUpTo(reader.cached_data, Len(reader.cached_data), char_idx,
                  character, dialogue_idx, filename_idx, first)

-----------------------------------------------------------------------------
(* VoiceGeneratorApp: the tasks of a batch *)

\* self.speaker_styles.get(speaker_name, [])
StylesOf(catalog, speaker_name) ==
    LET n == FirstIndex({j \in 1..Len(catalog) : catalog[j].name = speaker_name})
    IN IF n # 0 THEN catalog[n].styles ELSE <<>>

\* the lookup answering -1 for a pair it does not find
get_style_id_or_minus_one(catalog, speaker_name, style_name) ==
    LET styles == StylesOf(catalog, speaker_name)
        n == FirstIndex({j \in 1..Len(styles) : styles[j][1] = style_name})
    IN IF n # 0 THEN styles[n][2] ELSE -1

\* the lookup answering the speaker's first style whatever the style name
get_style_id_first(catalog, speaker_name, style_name) ==
    LET styles == StylesOf(catalog, speaker_name)
    IN IF styles # <<>> THEN styles[1][2] ELSE 0

\* VoiceGeneratorApp.get_style_id
get_style_id(catalog, speaker_name, style_name) ==
    LET styles == StylesOf(catalog, speaker_name)
        n == FirstIndex({j \in 1..Len(styles) : styles[j][1] = style_name})
    IN IF n # 0 THEN styles[n][2] ELSE 0

\* the task of a row with the style of the combobox, whatever the checkbox says
TaskManualStyle(catalog, auto, combo, row) ==
    [character |-> combo.character,
     speaker   |-> combo.speaker,
     style     |-> combo.style,
     style_id  |-> get_style_id(catalog, combo.speaker, combo.style),
     dialogue  |-> row.dialogue,
     filename  |-> row.filename]

\* lines 771-790: the task of one row of a character
Task(catalog, auto, combo, row) ==
    LET style_name == IF auto
                      THEN analyze(row.dialogue, StylesOf(catalog, combo.speaker))
                      ELSE combo.style
    IN [character |-> combo.character,
        speaker   |-> combo.speaker,
        style     |-> style_name,
        style_id  |-> get_style_id(catalog, combo.speaker, style_name),
        dialogue  |-> row.dialogue,
        filename  |-> row.filename]

\* lines 761-790 for one entry of voice_combos
TasksOfCharacter(reader, catalog, auto, combo, first) ==
    LET rows == get_rows_for_character(reader, char_column, combo.character,
                                       dialogue_column, filename_column, first)
    IN [j \in 1..Len(rows) |-> Task(catalog, auto, combo, rows[j])]

\* lines 759-790: the tasks, character by character in the order of voice_combos
CollectTasks(reader, catalog, auto, combos, first) ==
    Flatten([c \in 1..Len(combos) |->
                TasksOfCharacter(reader, catalog, auto, combos[c], first)])

-----------------------------------------------------------------------------
(* VoiceGeneratorApp.generate_voices, on the main thread *)

\* the generate_all and generate_preview threads one run of the model starts
MaxWorkers == 2

MaxPreviews == 1

\* messagebox.showerror / showinfo / askyesno
MessageBox(kind, what) == [box |-> kind, text |-> what]

\* the locals of generate_all when its thread starts; printed holds the
\* filenames of the error lines it printed, reported the two counts of the
\* final message box, and log the history of what the thread did, as
\* <<event, index of the task>>; calls holds the calls of generate_audio_query
\* and synthesize it made, and caught the exceptions its except clause caught
NewWorker(tasks) ==
    [tasks |-> tasks, i |-> 0, pc |-> "start",
     success_count |-> 0, error_count |-> 0, printed |-> <<>>,
     reported |-> <<>>, log |-> <<>>, calls |-> <<>>, caught |-> <<>>]

\* generate_voices (lines 734-844); confirm is the user's answer to askyesno
generate_voices(confirm) ==
    /\ generate_btn = "normal"
    /\ Len(workers) < MaxWorkers
    /\ IF output_path = <<>>
       THEN /\ dialog' = MessageBox("showerror", "no output folder")
            /\ UNCHANGED <<dirs, workers>>
       ELSE IF voice_combos = <<>>
       THEN /\ dialog' = MessageBox("showerror", "no voice settings")
            /\ UNCHANGED <<dirs, workers>>
       ELSE IF excel_reader.type = "NoneType"
       THEN /\ dialog' = MessageBox("showerror", "no excel file")
            /\ UNCHANGED <<dirs, workers>>
       ELSE IF ~backend_up
       THEN /\ dialog' = MessageBox("showerror", "VoiceVox is not running")
            /\ UNCHANGED <<dirs, workers>>
       ELSE /\ dirs' = dirs \cup {output_path}
            /\ LET tasks == CollectTasks(excel_reader, speaker_styles, auto_emotion,
                                         voice_combos, start_row)
               IN IF tasks = <<>>
                  THEN /\ dialog' = MessageBox("showerror", "nothing to generate")
                       /\ UNCHANGED workers
                  ELSE IF ~confirm
                  THEN /\ dialog' = MessageBox("askyesno", "no")
                       /\ UNCHANGED workers
                  ELSE /\ dialog' = MessageBox("askyesno", "yes")
                       /\ workers' = Append(workers, NewWorker(tasks))
    /\ UNCHANGED <<text, available_styles, analyzed, backend_up, speaker_styles,
                   excel_reader, start_row, voice_combos, auto_emotion, output_path,
                   generate_btn, status_label, files, previews,
                   cancel_requested>>

-----------------------------------------------------------------------------
(* generate_all, on its own thread *)

\* ".wav"
DOT_WAV == <<46, 119, 97, 118>>

\* the extension looked for in the filename as it is spelled
CoerceFilenameCaseSensitive(filename) ==
    IF EndsWith(filename, DOT_WAV) THEN filename ELSE filename \o DOT_WAV

\* lines 818-820
CoerceFilename(filename) ==
    IF EndsWith(Lower(filename), DOT_WAV) THEN filename ELSE filename \o DOT_WAV

\* the task the loop is at
CurrentTask(r) == r.tasks[r.i + 1]

\* an exception that leaves the loop: nothing counted, the thread ends
TaskFailedAborts(r) ==
    [r EXCEPT !.pc = "done", !.log = Append(@, <<"error", r.i>>)]

\* an exception that is swallowed without being counted
TaskFailedUncounted(r) ==
    [r EXCEPT !.printed = Append(@, CurrentTask(r).filename),
              !.pc = "progress",
              !.log = Append(@, <<"error", r.i>>)]

\* lines 829-831: the except clause
TaskFailed(r) ==
    [r EXCEPT !.error_count = @ + 1,
              !.printed = Append(@, CurrentTask(r).filename),
              !.pc = "progress",
              !.log = Append(@, <<"error", r.i>>)]

\* the loop showing the status of its first task only
AfterProgressSkipsStatus(r) ==
    IF r.i + 1 < Len(r.tasks) THEN "audio_query" ELSE "finish"

\* line 807: the next task, or the end of the loop
AfterProgress(r) == IF r.i + 1 < Len(r.tasks) THEN "status" ELSE "finish"

UnchangedByWorker ==
    UNCHANGED <<text, available_styles, analyzed, backend_up, speaker_styles,
                excel_reader, start_row, voice_combos, auto_emotion, output_path,
                dirs, previews,
                cancel_requested>>

\* lines 800-805
generate_all_begin(w) ==
    /\ workers[w].pc = "start"
    /\ generate_btn' = "disabled"
    /\ workers' = [workers EXCEPT ![w].pc = "status"]
    /\ UNCHANGED <<status_label, files, dialog>>
    /\ UnchangedByWorker

\* lines 809-812
show_status(w) ==
    LET r == workers[w]
    IN /\ r.pc = "status"
       /\ status_label' = [kind |-> "generating", index |-> r.i + 1,
                            total |-> Len(r.tasks),
                            filename |-> CurrentTask(r).filename]
       /\ workers' = [workers EXCEPT ![w] =
                         [r EXCEPT !.pc = "audio_query",
                                   !.log = Append(@, <<"status", r.i>>)]]
       /\ UNCHANGED <<generate_btn, files, dialog>>
       /\ UnchangedByWorker

\* a call of a method of VoiceVoxAPI for the task at hand: speaker_id is the
\* task's style_id (lines 814-816, 96-97)
Call(method, r, ok) ==
    [method |-> method, i |-> r.i, speaker_id |-> CurrentTask(r).style_id, ok |-> ok]

\* the exception without the one it replaces, as after `raise ... from None`
\* with the cause left out of the message
SpeechErrorUnchained(method) ==
    [type |-> "Exception", message |-> "speech generation failed", context |-> None]

\* lines 98-100: the exception generate_speech raises while it handles the
\* one raised in method; Python keeps the handled exception, with its
\* traceback, as the __context__ of the new one, and the message ends with
\* the text of the handled one
SpeechError(method) ==
    [type |-> "Exception", message |-> "speech generation failed",
     context |-> [type |-> "Exception", raised_in |-> method]]

\* an exception of convert_to_16bit_44100hz or of the file system
ConversionError == [type |-> "Exception", message |-> "conversion failed",
                    context |-> None]

\* line 829: the except clause has caught e
Caught(r, e) == [r EXCEPT !.caught = Append(@, [i |-> r.i, e |-> e])]

\* line 96: generate_audio_query; ok: the request succeeded
audio_query(w, ok) ==
    LET r == workers[w]
        called == [r EXCEPT !.log = Append(@, <<"audio_query", r.i>>),
                            !.calls = Append(@, Call("generate_audio_query", r, ok))]
    IN /\ r.pc = "audio_query"
       /\ ok => backend_up
       /\ workers' = [workers EXCEPT ![w] =
                         IF ok THEN [called EXCEPT !.pc = "synthesis"]
                         ELSE TaskFailed(Caught(called,
                                                SpeechError("generate_audio_query")))]
       /\ UNCHANGED <<generate_btn, status_label, files, dialog>>
       /\ UnchangedByWorker

\* line 97: synthesize
synthesis(w, ok) ==
    LET r == workers[w]
        called == [r EXCEPT !.log = Append(@, <<"synthesis", r.i>>),
                            !.calls = Append(@, Call("synthesize", r, ok))]
    IN /\ r.pc = "synthesis"
       /\ ok => backend_up
       /\ workers' = [workers EXCEPT ![w] =
                         IF ok THEN [called EXCEPT !.pc = "convert"]
                         ELSE TaskFailed(Caught(called, SpeechError("synthesize")))]
       /\ UNCHANGED <<generate_btn, status_label, files, dialog>>
       /\ UnchangedByWorker

\* lines 818-827: the file is written into the folder output_path names now;
\* writing fails when that folder does not exist, and may fail otherwise
convert(w, ok) ==
    LET r == workers[w]
    IN /\ r.pc = "convert"
       /\ ok => output_path \in dirs
       /\ IF ok
          THEN /\ files' = files \cup
                      {<<output_path, CoerceFilename(CurrentTask(r).filename)>>}
               /\ workers' = [workers EXCEPT ![w] =
                                 [r EXCEPT !.success_count = @ + 1,
                                           !.pc = "progress",
                                           !.log = Append(@, <<"wrote", r.i>>)]]
          ELSE /\ files' = files
               /\ workers' = [workers EXCEPT ![w] =
                                 TaskFailed(Caught(r, ConversionError))]
       /\ UNCHANGED <<generate_btn, status_label, dialog>>
       /\ UnchangedByWorker

\* lines 833-834
progress(w) ==
    LET r == workers[w]
    IN /\ r.pc = "progress"
       /\ workers' = [workers EXCEPT ![w] =
                         [r EXCEPT !.i = @ + 1, !.pc = AfterProgress(r)]]
       /\ UNCHANGED <<generate_btn, status_label, files, dialog>>
       /\ UnchangedByWorker

\* lines 836-842: the final tally
generate_all_end(w) ==
    LET r == workers[w]
    IN /\ r.pc = "finish"
       /\ generate_btn' = "normal"
       /\ status_label' = [kind |-> "empty"]
       /\ dialog' = [box |-> "showinfo", text |-> "done",
                     success |-> r.success_count, error |-> r.error_count]
       /\ workers' = [workers EXCEPT ![w] =
                         [r EXCEPT !.pc = "done",
                                   !.reported = <<r.success_count, r.error_count>>]]
       /\ UNCHANGED files
       /\ UnchangedByWorker

generate_all(w) ==
    \/ generate_all_begin(w)
    \/ show_status(w)
    \/ \E ok \in BOOLEAN : audio_query(w, ok)
    \/ \E ok \in BOOLEAN : synthesis(w, ok)
    \/ \E ok \in BOOLEAN : convert(w, ok)
    \/ progress(w)
    \/ generate_all_end(w)

-----------------------------------------------------------------------------
(* The other handlers of the main thread, and the VoiceVox engine *)

\* "四国めたん" and "ずんだもん"
METAN == <<22235, 22269, 12417, 12383, 12435>>

ZUNDAMON == <<12378, 12435, 12384, 12418, 12435>>

\* "あまあま", "ツンツン"
AMAAMA == <<12354, 12414, 12354, 12414>>

TSUNTSUN == <<12484, 12531, 12484, 12531>>

\* what GET /speakers of the engine answers, as get_speaker_styles keeps it:
\* the speakers in order, each with its (style name, style id) pairs
EngineSpeakers ==
    << [name |-> METAN, styles |-> << <<NORMAL_JA, 2>>, <<AMAAMA, 0>> >>],
       [name |-> ZUNDAMON,
        styles |-> << <<NORMAL_JA, 3>>, <<AMAAMA, 1>>, <<TSUNTSUN, 7>> >>] >>

\* "out" and "new": the folders the user can choose
OUT_DIR == <<111, 117, 116>>

NEW_DIR == <<110, 101, 119>>

OutputDirs == {OUT_DIR, NEW_DIR}

\* the engine with ずんだもん not installed
EngineWithoutZundamon ==
    << [name |-> METAN, styles |-> << <<NORMAL_JA, 2>>, <<AMAAMA, 0>> >>] >>

\* the engine with ずんだもん lacking the style ツンツン
EngineWithoutTsuntsun ==
    << [name |-> METAN, styles |-> << <<NORMAL_JA, 2>>, <<AMAAMA, 0>> >>],
       [name |-> ZUNDAMON, styles |-> << <<NORMAL_JA, 3>>, <<AMAAMA, 1>> >>] >>

\* what the engine running at the time of a request may answer to GET /speakers
EngineCatalogs == {EngineSpeakers, EngineWithoutZundamon, EngineWithoutTsuntsun}

\* check_voicevox (lines 452-463), the reconnect button; fetched: GET /speakers
\* of get_speaker_styles succeeded, with the answer speakers
check_voicevox(fetched, speakers) ==
    /\ fetched => backend_up
    /\ speaker_styles' = IF backend_up /\ fetched THEN speakers ELSE speaker_styles
    /\ UNCHANGED <<text, available_styles, analyzed, backend_up, excel_reader,
                   start_row, voice_combos, auto_emotion, output_path, generate_btn,
                   status_label, dirs, files, dialog, workers, previews,
                   cancel_requested>>

\* browse_output (lines 728-732) with a folder chosen
browse_output(path) ==
    /\ output_path' = path
    /\ UNCHANGED <<text, available_styles, analyzed, backend_up, speaker_styles,
                   excel_reader, start_row, voice_combos, auto_emotion, generate_btn,
                   status_label, dirs, files, dialog, workers, previews,
                   cancel_requested>>

\* the engine is started or stopped
EngineSwitch ==
    /\ backend_up' = ~backend_up
    /\ UNCHANGED <<text, available_styles, analyzed, speaker_styles, excel_reader,
                   start_row, voice_combos, auto_emotion, output_path, generate_btn,
                   status_label, dirs, files, dialog, workers, previews,
                   cancel_requested>>

\* the user asks for the running batch to stop; the window has no control for
\* it, and no attribute of the application and no local of generate_all
\* (lines 799-842) holds or reads such a request
request_cancel ==
    /\ ~cancel_requested
    /\ \E w \in 1..Len(workers) : workers[w].pc # "done"
    /\ cancel_requested' = TRUE
    /\ UNCHANGED <<text, available_styles, analyzed, backend_up, speaker_styles,
                   excel_reader, start_row, voice_combos, auto_emotion, output_path,
                   generate_btn, status_label, dirs, files, dialog, workers, previews>>

\* preview_voice (lines 658-726) for the c-th entry of voice_combos
preview_voice(c) ==
    LET combo == voice_combos[c]
        rows == IF excel_reader.type = "NoneType" THEN <<>>
                ELSE get_rows_for_character(excel_reader, char_column, combo.character,
                                            dialogue_column, filename_column, start_row)
    IN /\ Len(previews) < MaxPreviews
       /\ IF excel_reader.type = "NoneType"
          THEN /\ dialog' = MessageBox("showerror", "no excel file")
               /\ UNCHANGED previews
          ELSE IF combo.speaker = <<>> \/ combo.style = <<>>
          THEN /\ dialog' = MessageBox("showerror", "no speaker or style")
               /\ UNCHANGED previews
          ELSE IF rows = <<>>
          THEN /\ dialog' = MessageBox("showerror", "no dialogue")
               /\ UNCHANGED previews
          ELSE /\ dialog' = dialog
               /\ previews' = Append(previews,
                      [pc |-> "audio_query",
                       first_dialogue |-> rows[1].dialogue,
                       style_id |-> get_style_id(speaker_styles, combo.speaker,
                                                 combo.style)])
       /\ UNCHANGED <<text, available_styles, analyzed, backend_up, speaker_styles,
                      excel_reader, start_row, voice_combos, auto_emotion, output_path,
                      generate_btn, status_label, dirs, files, workers,
                      cancel_requested>>

UnchangedByPreview ==
    UNCHANGED <<text, available_styles, analyzed, backend_up, speaker_styles,
                excel_reader, start_row, voice_combos, auto_emotion, output_path,
                generate_btn, dirs, files, dialog, workers,
                cancel_requested>>

\* generate_preview, lines 698-700: the status and generate_audio_query
preview_audio_query(p, ok) ==
    /\ previews[p].pc = "audio_query"
    /\ ok => backend_up
    /\ status_label' = [kind |-> IF ok THEN "preview" ELSE "error"]
    /\ previews' = [previews EXCEPT ![p].pc = IF ok THEN "synthesis" ELSE "done"]
    /\ UnchangedByPreview

\* generate_preview, line 700: synthesize
preview_synthesis(p, ok) ==
    /\ previews[p].pc = "synthesis"
    /\ ok => backend_up
    /\ status_label' = [kind |-> IF ok THEN "preview" ELSE "error"]
    /\ previews' = [previews EXCEPT ![p].pc = IF ok THEN "play" ELSE "done"]
    /\ UnchangedByPreview

\* generate_preview, lines 702-724: the clip is played from a temporary file
preview_play(p) ==
    /\ previews[p].pc = "play"
    /\ status_label' = [kind |-> "empty"]
    /\ previews' = [previews EXCEPT ![p].pc = "done"]
    /\ UnchangedByPreview

generate_preview(p) ==
    \/ \E ok \in BOOLEAN : preview_audio_query(p, ok)
    \/ \E ok \in BOOLEAN : preview_synthesis(p, ok)
    \/ preview_play(p)

-----------------------------------------------------------------------------
(* The inputs the specifications draw from *)

\* how long the drawn sequences get
MaxFragments == 2

MaxStyles == 2

MaxRows == 3

MaxTasks == 3

\* the sequences over S of at most n elements
SeqsUpTo(S, n) == UNION {[1..k -> S] : k \in 0..n}

\* those without a repeated element
DistinctSeqsUpTo(S, n) ==
    {q \in SeqsUpTo(S, n) : \A i, j \in 1..Len(q) : q[i] = q[j] => i = j}

\* pieces of dialogue: 大好き 嬉しい うれしい ふざけるな しー 今日は天気です
Fragments ==
    { <<22823, 22909, 12365>>,
      <<23305, 12375, 12356>>,
      <<12358, 12428, 12375, 12356>>,
      <<12405, 12374, 12369, 12427, 12394>>,
      <<12375, 12540>>,
      <<20170, 26085, 12399, 22825, 27671, 12391, 12377>> }

Texts == {Flatten(q) : q \in SeqsUpTo(Fragments, MaxFragments)}

\* styles of a speaker: ノーマル あまあま 怒り 喜び "NORMAL"
StylePool ==
    { <<NORMAL_JA, 2>>,
      <<AMAAMA, 0>>,
      <<<<24594, 12426>>, 11>>,
      <<<<21916, 12403>>, 12>>,
      <<<<78, 79, 82, 77, 65, 76>>, 5>> }

StyleLists == DistinctSeqsUpTo(StylePool, MaxStyles)

\* characters "A", "B", "C"
CHAR_A == <<65>>

CHAR_B == <<66>>

CHAR_C == <<67>>

\* the header row of a sheet
HeaderRow == <<PyStr(<<110, 97, 109, 101>>), PyStr(<<108, 105, 110, 101>>),
               PyStr(<<102, 105, 108, 101>>)>>

\* data rows (character, dialogue, filename):
\*   A    大好き  f1        B    yo     f2        " A " bye   "f3 "
\*   A    " "     f4        A    hi     0         B    None   f6
\*   C    hi      f7
RowPool ==
    { <<PyStr(CHAR_A), PyStr(<<22823, 22909, 12365>>), PyStr(<<102, 49>>)>>,
      <<PyStr(CHAR_B), PyStr(<<121, 111>>), PyStr(<<102, 50>>)>>,
      <<PyStr(<<32, 65, 32>>), PyStr(<<98, 121, 101>>), PyStr(<<102, 51, 32>>)>>,
      <<PyStr(CHAR_A), PyStr(<<32>>), PyStr(<<102, 52>>)>>,
      <<PyStr(CHAR_A), PyStr(<<104, 105>>), PyInt(0)>>,
      <<PyStr(CHAR_B), None, PyStr(<<102, 54>>)>>,
      <<PyStr(CHAR_C), PyStr(<<104, 105>>), PyStr(<<102, 55>>)>> }

Sheets == {<<HeaderRow>> \o q : q \in SeqsUpTo(RowPool, MaxRows)}

\* the sheet of the application runs: A 大好き f1, B None f6
AppSheet ==
    << HeaderRow,
       <<PyStr(CHAR_A), PyStr(<<22823, 22909, 12365>>), PyStr(<<102, 49>>)>>,
       <<PyStr(CHAR_B), None, PyStr(<<102, 54>>)>> >>

\* entries of voice_combos as setup_voice_assignment and the comboboxes leave them
ComboA == [character |-> CHAR_A, speaker |-> METAN, style |-> NORMAL_JA]

ComboB == [character |-> CHAR_B, speaker |-> ZUNDAMON, style |-> TSUNTSUN]

\* voice_combos: its keys are in the order of the sorted character list
ComboLists == {<<>>, <<ComboA>>, <<ComboB>>, <<ComboA, ComboB>>}

\* tasks of a running batch: f1 and f2.WAV
BatchTaskPool ==
    { Task(EngineSpeakers, FALSE, ComboA,
           [dialogue |-> <<104, 105>>, filename |-> <<102, 49>>]),
      Task(EngineSpeakers, FALSE, ComboB,
           [dialogue |-> <<121, 111>>, filename |-> <<102, 50, 46, 87, 65, 86>>]) }

TaskLists == SeqsUpTo(BatchTaskPool, MaxTasks) \ {<<>>}

\* "line01", "line02" and "": what a filename starts with
FilenameStems ==
    { <<108, 105, 110, 101, 48, 49>>, <<108, 105, 110, 101, 48, 50>>, <<>> }

\* how many endings a drawn filename gets
MaxEndings == 2

\* ".wav" ".WAV" ".Wav" "wav" ".wa" ".wav." ".wavx" ".mp3"
FilenameEndings ==
    { <<46, 119, 97, 118>>, <<46, 87, 65, 86>>, <<46, 87, 97, 118>>,
      <<119, 97, 118>>, <<46, 119, 97>>, <<46, 119, 97, 118, 46>>,
      <<46, 119, 97, 118, 120>>, <<46, 109, 112, 51>> }

\* the filenames of the tasks whose writing is looked at
Filenames ==
    {stem \o Flatten(q) : stem \in FilenameStems,
                          q \in SeqsUpTo(FilenameEndings, MaxEndings)}

-----------------------------------------------------------------------------
(* The specifications *)

\* no call of analyze is being looked at
AnalyzerIdle == text = <<>> /\ available_styles = <<>> /\ analyzed = None

\* the application as __init__ leaves it, VoiceVox running
AppIdle ==
    /\ backend_up = TRUE
    /\ speaker_styles = EngineSpeakers
    /\ excel_reader = None
    /\ start_row = 2
    /\ voice_combos = <<>>
    /\ auto_emotion = TRUE
    /\ output_path = <<>>
    /\ generate_btn = "normal"
    /\ status_label = [kind |-> "empty"]
    /\ dirs = {}
    /\ files = {}
    /\ dialog = MessageBox("none", "")
    /\ workers = <<>>
    /\ previews = <<>>
    /\ cancel_requested = FALSE

\* EmotionAnalyzer.analyze applied to the drawn arguments
AnalyzeCall ==
    /\ analyzed = None
    /\ analyzed' = PyStr(analyze(text, available_styles))
    /\ UNCHANGED <<text, available_styles, backend_up, speaker_styles, excel_reader,
                   start_row, voice_combos, auto_emotion, output_path, generate_btn,
                   status_label, dirs, files, dialog, workers, previews,
                   cancel_requested>>

InitAnalyze ==
    /\ text \in Texts
    /\ available_styles \in StyleLists
    /\ analyzed = None
    /\ AppIdle

NextAnalyze == AnalyzeCall

SpecAnalyze == InitAnalyze /\ [][NextAnalyze]_vars

\* the application with a sheet selected and voices assigned, before the
\* generate button is pressed
InitBuild ==
    /\ AnalyzerIdle
    /\ backend_up = TRUE
    /\ speaker_styles = EngineSpeakers
    /\ excel_reader \in {ExcelReader(rows) : rows \in Sheets}
    /\ start_row \in {1, 2}
    /\ voice_combos \in ComboLists
    /\ auto_emotion \in BOOLEAN
    /\ output_path = OUT_DIR
    /\ generate_btn = "normal"
    /\ status_label = [kind |-> "empty"]
    /\ dirs = {}
    /\ files = {}
    /\ dialog = MessageBox("none", "")
    /\ workers = <<>>
    /\ previews = <<>>
    /\ cancel_requested = FALSE

NextBuild == \E confirm \in BOOLEAN : generate_voices(confirm)

SpecBuild == InitBuild /\ [][NextBuild]_vars

\* one batch, from the start of its thread
InitBatch ==
    /\ AnalyzerIdle
    /\ backend_up = TRUE
    /\ speaker_styles = EngineSpeakers
    /\ excel_reader = ExcelReader(AppSheet)
    /\ start_row = 2
    /\ voice_combos = <<ComboA, ComboB>>
    /\ auto_emotion = FALSE
    /\ output_path = OUT_DIR
    /\ generate_btn = "normal"
    /\ status_label = [kind |-> "empty"]
    /\ dirs = {OUT_DIR}
    /\ files = {}
    /\ dialog = MessageBox("askyesno", "yes")
    /\ workers \in {<<NewWorker(tasks)>> : tasks \in TaskLists}
    /\ previews = <<>>
    /\ cancel_requested = FALSE

NextBatch ==
    \/ \E w \in 1..Len(workers) : generate_all(w)
    \/ \E path \in OutputDirs : browse_output(path)
    \/ EngineSwitch
    \/ request_cancel

SpecBatch == InitBatch /\ [][NextBatch]_vars

\* the sheet of the runs with a reconnection: A 大好き f1, B yo f2, A bye f3
ResolveSheet ==
    << HeaderRow,
       <<PyStr(CHAR_A), PyStr(<<22823, 22909, 12365>>), PyStr(<<102, 49>>)>>,
       <<PyStr(CHAR_B), PyStr(<<121, 111>>), PyStr(<<102, 50>>)>>,
       <<PyStr(CHAR_A), PyStr(<<98, 121, 101>>), PyStr(<<102, 51>>)>> >>

\* the application with a sheet selected and voices assigned from the catalog
\* of the engine, before the generate button is pressed
InitResolve ==
    /\ AnalyzerIdle
    /\ backend_up = TRUE
    /\ speaker_styles = EngineSpeakers
    /\ excel_reader = ExcelReader(ResolveSheet)
    /\ start_row \in {1, 2}
    /\ voice_combos \in ComboLists
    /\ auto_emotion \in BOOLEAN
    /\ output_path = OUT_DIR
    /\ generate_btn = "normal"
    /\ status_label = [kind |-> "empty"]
    /\ dirs = {}
    /\ files = {}
    /\ dialog = MessageBox("none", "")
    /\ workers = <<>>
    /\ previews = <<>>
    /\ cancel_requested = FALSE

\* the reconnect button and the generate button
NextResolve ==
    \/ \E fetched \in BOOLEAN, speakers \in EngineCatalogs :
          check_voicevox(fetched, speakers)
    \/ \E confirm \in BOOLEAN : generate_voices(confirm)

SpecResolve == InitResolve /\ [][NextResolve]_vars

\* one batch, from the start of its thread, both folders the user can choose
\* existing; the batch was started with the folder "out"
InitShared ==
    /\ AnalyzerIdle
    /\ backend_up = TRUE
    /\ speaker_styles = EngineSpeakers
    /\ excel_reader = ExcelReader(AppSheet)
    /\ start_row = 2
    /\ voice_combos = <<ComboA, ComboB>>
    /\ auto_emotion = FALSE
    /\ output_path = OUT_DIR
    /\ generate_btn = "normal"
    /\ status_label = [kind |-> "empty"]
    /\ dirs = OutputDirs
    /\ files = {}
    /\ dialog = MessageBox("askyesno", "yes")
    /\ workers \in {<<NewWorker(tasks)>> : tasks \in TaskLists}
    /\ previews = <<>>
    /\ cancel_requested = FALSE

\* the batch thread, and what the user can do in the window while it runs
NextShared ==
    \/ \E w \in 1..Len(workers) : generate_all(w)
    \/ \E path \in OutputDirs : browse_output(path)
    \/ \E fetched \in BOOLEAN, speakers \in EngineCatalogs :
          check_voicevox(fetched, speakers)
    \/ EngineSwitch

SpecShared == InitShared /\ [][NextShared]_vars

\* one batch of one task, whose filename is drawn
InitCoerce ==
    /\ AnalyzerIdle
    /\ backend_up = TRUE
    /\ speaker_styles = EngineSpeakers
    /\ excel_reader = ExcelReader(AppSheet)
    /\ start_row = 2
    /\ voice_combos = <<ComboA, ComboB>>
    /\ auto_emotion = FALSE
    /\ output_path = OUT_DIR
    /\ generate_btn = "normal"
    /\ status_label = [kind |-> "empty"]
    /\ dirs = {OUT_DIR}
    /\ files = {}
    /\ dialog = MessageBox("askyesno", "yes")
    /\ workers \in
          {<<NewWorker(<<Task(EngineSpeakers, FALSE, ComboA,
                             [dialogue |-> <<104, 105>>, filename |-> f])>>)>> :
              f \in Filenames}
    /\ previews = <<>>
    /\ cancel_requested = FALSE

SpecCoerce == InitCoerce /\ [][NextBatch]_vars

\* the application, configured, with the engine running or not
Init ==
    /\ AnalyzerIdle
    /\ backend_up \in BOOLEAN
    /\ voice_combos \in ComboLists
    /\ excel_reader \in {None, ExcelReader(AppSheet)}
    /\ voice_combos # <<>> => excel_reader.type = "ExcelReader"
    /\ speaker_styles \in {<<>>, EngineSpeakers}
    /\ (voice_combos # <<>> \/ backend_up) => speaker_styles = EngineSpeakers
    /\ start_row = 2
    /\ auto_emotion = TRUE
    /\ output_path \in {<<>>, OUT_DIR}
    /\ generate_btn = "normal"
    /\ status_label = [kind |-> "empty"]
    /\ dirs = {}
    /\ files = {}
    /\ dialog = MessageBox("none", "")
    /\ workers = <<>>
    /\ previews = <<>>
    /\ cancel_requested = FALSE

Next ==
    \/ \E confirm \in BOOLEAN : generate_voices(confirm)
    \/ \E w \in 1..Len(workers) : generate_all(w)
    \/ \E c \in 1..Len(voice_combos) : preview_voice(c)
    \/ \E p \in 1..Len(previews) : generate_preview(p)
    \/ \E fetched \in BOOLEAN, speakers \in EngineCatalogs :
          check_voicevox(fetched, speakers)
    \/ \E path \in OutputDirs : browse_output(path)
    \/ EngineSwitch

Spec == Init /\ [][Next]_vars

-----------------------------------------------------------------------------
(* EmotionAnalyzer.analyze: claims C5, C6, C7 (SpecAnalyze) *)

\* the call has returned
Analyzed == analyzed.type = "str"

\* the names of the styles offered
OfferedNames == StyleNames(available_styles)

\* the number of keywords of emotion e that occur in the text
KeywordHits(e) ==
    Cardinality({j \in 1..Len(EMOTION_KEYWORDS[e].keywords) :
                    Contains(text, EMOTION_KEYWORDS[e].keywords[j])})

\* the places of the offered styles whose name contains the label of emotion e
StylesNaming(e) ==
    {j \in 1..Len(OfferedNames) : Contains(OfferedNames[j], EMOTION_KEYWORDS[e].emotion)}

\* the emotions that scored and that some offered style names
Candidates ==
    {e \in 1..Len(EMOTION_KEYWORDS) : KeywordHits(e) > 0 /\ StylesNaming(e) # {}}

\* e ranks before f: a higher score, or the same score and declared earlier
RanksBefore(e, f) ==
    \/ KeywordHits(e) > KeywordHits(f)
    \/ KeywordHits(e) = KeywordHits(f) /\ e < f

\* the least element of a non-empty set of numbers
Least(S) == CHOOSE j \in S : \A k \in S : j <= k

\* C5: for a non-empty text and a non-empty list of styles, analyze returns the
\* name of one of the styles of the list, never a name of its own
C5_ReturnsAvailableStyle ==
    (Analyzed /\ text # <<>> /\ available_styles # <<>>)
        => \E j \in 1..Len(OfferedNames) : OfferedNames[j] = analyzed.value

\* C5 witness: 怒り and 喜び are offered, the text 今日は天気です scores nothing,
\* and the first of the two was returned
C5_Witness ==
    /\ Analyzed
    /\ text = <<20170, 26085, 12399, 22825, 27671, 12391, 12377>>
    /\ OfferedNames = << <<24594, 12426>>, <<21916, 12403>> >>
    /\ analyzed.value = <<24594, 12426>>

\* C6: the emotions are scored by their keywords that occur in the text and
\* ranked by score, highest first, equal scores in declaration order; analyze
\* returns the first offered style naming the best-ranked scored emotion that
\* any offered style names; 大好き with [あまあま, ノーマル] gives あまあま and
\* ふざけるな with [怒り, ノーマル] gives 怒り
C6_BestRankedEmotionStyle ==
    Analyzed =>
        /\ Candidates # {} =>
              \E e \in Candidates :
                 /\ \A f \in Candidates \ {e} : RanksBefore(e, f)
                 /\ analyzed.value = OfferedNames[Least(StylesNaming(e))]
        /\ (/\ text = <<22823, 22909, 12365>>
            /\ OfferedNames = <<AMAAMA, NORMAL_JA>>) => analyzed.value = AMAAMA
        /\ (/\ text = <<12405, 12374, 12369, 12427, 12394>>
            /\ OfferedNames = << <<24594, 12426>>, NORMAL_JA >>)
              => analyzed.value = <<24594, 12426>>

\* C6 witness: 嬉しい scores あまあま and 喜び once each; 喜び is offered before
\* あまあま, and あまあま, declared first, was returned
C6_Witness ==
    /\ Analyzed
    /\ text = <<23305, 12375, 12356>>
    /\ OfferedNames = << <<21916, 12403>>, AMAAMA >>
    /\ analyzed.value = AMAAMA

\* the places of the offered styles whose name contains "normal" in any case,
\* or ノーマル
NormalStyles ==
    {j \in 1..Len(OfferedNames) :
        \/ Contains(OfferedNames[j], NORMAL_JA)
        \/ Contains(Lower(OfferedNames[j]), NORMAL_EN)}

\* C7: when no emotion scores, or no offered style names a scored emotion,
\* analyze returns the first offered style that is a normal one, else the first
\* offered style, else the placeholder ノーマル
C7_FallsBackToNormal ==
    (Analyzed /\ Candidates = {}) =>
        analyzed.value =
            IF NormalStyles # {} THEN OfferedNames[Least(NormalStyles)]
            ELSE IF OfferedNames # <<>> THEN OfferedNames[1]
            ELSE NORMAL_JA

\* C7 witness: ふざけるな scores 怒り, which neither あまあま nor NORMAL names, and
\* NORMAL, the second style, was returned
C7_Witness ==
    /\ Analyzed
    /\ text = <<12405, 12374, 12369, 12427, 12394>>
    /\ OfferedNames = <<AMAAMA, <<78, 79, 82, 77, 65, 76>> >>
    /\ analyzed.value = <<78, 79, 82, 77, 65, 76>>

-----------------------------------------------------------------------------
(* generate_all: claims C1, C2, C8 (SpecBatch) *)

\* the places of the log where event ev of task k stands
Places(r, ev, k) == {n \in 1..Len(r.log) : r.log[n] = <<ev, k>>}

\* the places where the attempt of task k ended, with a file or with an error
EndPlaces(r, k) == Places(r, "wrote", k) \cup Places(r, "error", k)

\* the tasks whose attempt has ended, and those whose attempt failed
Attempted(r) == {k \in 0..(Len(r.tasks) - 1) : EndPlaces(r, k) # {}}

Failed(r) == {k \in 0..(Len(r.tasks) - 1) : Places(r, "error", k) # {}}

\* the loop is over
LoopOver(r) == r.pc \in {"finish", "done"}

\* C1: in every state of a batch success_count + error_count is the number of
\* tasks attempted so far, and it is the number of tasks when the loop is over
\* and in the tally reported
C1_CountsSumToAttempts ==
    \A w \in 1..Len(workers) :
        LET r == workers[w]
        IN /\ r.success_count + r.error_count = Cardinality(Attempted(r))
           /\ LoopOver(r) => r.success_count + r.error_count = Len(r.tasks)
           /\ r.pc = "done" => r.reported[1] + r.reported[2] = Len(r.tasks)

\* C1 witness: a batch of three tasks reported two successes and one error
C1_Witness ==
    /\ Len(workers) = 1
    /\ workers[1].pc = "done"
    /\ Len(workers[1].tasks) = 3
    /\ workers[1].reported = <<2, 1>>

C8_ProgressInTaskOrder ==
    \A w \in 1..Len(workers) :
        LET r == workers[w]
            started == {k \in 0..(Len(r.tasks) - 1) :
                           \E ev \in {"status", "audio_query", "synthesis", "wrote", "error"} :
                               Places(r, ev, k) # {}}
        IN /\ \A k \in started :
                 /\ Cardinality(Places(r, "status", k)) = 1
                 /\ \A n \in Places(r, "audio_query", k) \cup Places(r, "synthesis", k)
                            \cup EndPlaces(r, k) :
                       \A m \in Places(r, "status", k) : m < n
                 /\ k > 0 =>
                       /\ k - 1 \in started
                       /\ \A n \in Places(r, "status", k) \cup Places(r, "audio_query", k) :
                             \E m \in EndPlaces(r, k - 1) : m < n
                 /\ \A j \in started :
                       j < k => \A m \in Places(r, "wrote", j) :
                                   \A n \in Places(r, "wrote", k) : m < n
           /\ (r.pc = "audio_query" /\ Len(workers) = 1 /\ previews = <<>>) =>
                 /\ status_label.kind = "generating"
                 /\ status_label.filename = CurrentTask(r).filename

\* C8 witness: the second of three tasks is at its first request, after the
\* first task was written; its status has been shown
C8_Witness ==
    /\ Len(workers) = 1
    /\ Len(workers[1].tasks) = 3
    /\ workers[1].pc = "synthesis"
    /\ workers[1].i = 1
    /\ Places(workers[1], "wrote", 0) # {}
    /\ Places(workers[1], "status", 1) # {}
    /\ Places(workers[1], "audio_query", 1) # {}

-----------------------------------------------------------------------------
(* generate_voices, the task list: claims C3, C4 (SpecBuild) *)

\* the cell is present and has text left after trimming
HasText(cell) == cell.type # "NoneType" /\ Strip(Str(cell)) # <<>>

\* the row is eligible: its character, dialogue and filename all have text
Eligible(row) == HasText(row[1]) /\ HasText(row[2]) /\ HasText(row[3])

\* the data rows of the sheet whose trimmed character is the one given, as
\* (character, dialogue, filename), in sheet order; all of them, or the eligible ones only
RowsOf(character, eligible_only) ==
    LET data == excel_reader.cached_data
        idx == SelectIndices(Len(data),
                   {k \in 1..Len(data) :
                        /\ k >= start_row
                        /\ data[k][1].type # "NoneType"
                        /\ Strip(Str(data[k][1])) = character
                        /\ eligible_only => Eligible(data[k])})
    IN [n \in 1..Len(idx) |->
           <<character, Strip(Str(data[idx[n]][2])), Strip(Str(data[idx[n]][3]))>>]

\* the rows of the assigned characters: character by character in the order
\* of voice_combos, each character's rows in sheet order
RowsInTaskOrder(eligible_only) ==
    Flatten([c \in 1..Len(voice_combos) |->
                 RowsOf(voice_combos[c].character, eligible_only)])

\* a is b with some elements left out
RECURSIVE IsSubsequence(_, _)
IsSubsequence(a, b) ==
    IF a = <<>> THEN TRUE
    ELSE IF b = <<>> THEN FALSE
    ELSE IF Head(a) = Head(b) THEN IsSubsequence(Tail(a), Tail(b))
    ELSE IsSubsequence(a, Tail(b))

\* the tasks of a batch as (character, dialogue, filename)
TaskRows(tasks) ==
    [n \in 1..Len(tasks) |-> <<tasks[n].character, tasks[n].dialogue, tasks[n].filename>>]

\* the tasks are rows of assigned characters, each at most once, in the order
\* of voice_combos and, within a character, of the sheet
TasksFollowSheetOrder ==
    \A w \in 1..Len(workers) :
        IsSubsequence(TaskRows(workers[w].tasks), RowsInTaskOrder(FALSE))

\* C3: the task list is ordered by character in the order of voice_combos and,
\* within a character, by sheet row; every eligible row of an assigned
\* character yields exactly one task, rows of other characters yield none
C3_TasksInAssignmentThenRowOrder ==
    /\ TasksFollowSheetOrder
    /\ \A w \in 1..Len(workers) :
          IsSubsequence(RowsInTaskOrder(TRUE), TaskRows(workers[w].tasks))
    /\ dialog.text = "nothing to generate" => RowsInTaskOrder(TRUE) = <<>>

\* C4: no task has an empty dialogue or an empty filename: a row whose
\* dialogue or filename is empty after trimming yields no task
C4_NoTaskFromEmptyCell ==
    \A w \in 1..Len(workers) :
        \A n \in 1..Len(workers[w].tasks) :
            /\ workers[w].tasks[n].dialogue # <<>>
            /\ workers[w].tasks[n].filename # <<>>

-----------------------------------------------------------------------------
(* generate_voices and its threads: claims C9, C10 (Spec) *)

\* the batch must abort: the health check fails, no voice is assigned, or
\* there is no task to run
MustAbort ==
    \/ ~backend_up
    \/ voice_combos = <<>>
    \/ excel_reader.type = "NoneType"
    \/ CollectTasks(excel_reader, speaker_styles, auto_emotion, voice_combos,
                    start_row) = <<>>

\* C9: a press of the generate button that must abort starts no thread and
\* creates or writes nothing in the file system
C9_AbortTouchesNothing ==
    [][((\E confirm \in BOOLEAN : generate_voices(confirm)) /\ MustAbort)
          => UNCHANGED <<workers, dirs, files>>]_vars

\* the generate_all threads that have begun and not ended
RunningWorkers == {w \in 1..Len(workers) : workers[w].pc \notin {"start", "done"}}

\* the generate_all threads inside generate_speech
SynthesizingWorkers ==
    {w \in 1..Len(workers) : workers[w].pc \in {"audio_query", "synthesis"}}

\* C10: at most one generate_all thread is running, and at most one of them
\* is inside a synthesis call
C10_OneBatchAtATime ==
    /\ Cardinality(RunningWorkers) <= 1
    /\ Cardinality(SynthesizingWorkers) <= 1

-----------------------------------------------------------------------------
(* generate_all and a request to stop: claim C11 (SpecBatch) *)

\* thread w is between two tasks: task i has been attempted and counted, and
\* a further task is left
BetweenTasks(w) ==
    /\ workers[w].pc = "progress"
    /\ workers[w].i + 1 < Len(workers[w].tasks)

\* C11: a request to cancel made between tasks stops the run early: once the
\* request stands when a task has been attempted, the thread starts no
\* further task, and the run ends with exactly the attempts made so far
\* recorded and marked as cancelled
C11_CancelStopsRunEarly ==
    [][\A w \in 1..Len(workers) :
          (cancel_requested /\ BetweenTasks(w)) =>
              /\ workers'[w].pc # "status"
              /\ workers'[w].pc = "done" =>
                    /\ workers'[w].reported[1] + workers'[w].reported[2]
                          = workers[w].i + 1
                    /\ "cancelled" \in DOMAIN workers'[w]]_vars

-----------------------------------------------------------------------------
(* generate_all, the name of the file written: claim C12 (SpecCoerce) *)

\* the last four code points of f are ".", "w" or "W", "a" or "A", "v" or "V"
EndsWithWavAnyCase(f) ==
    /\ Len(f) >= 4
    /\ f[Len(f) - 3] = 46
    /\ f[Len(f) - 2] \in {119, 87}
    /\ f[Len(f) - 1] \in {97, 65}
    /\ f[Len(f)] \in {118, 86}

\* the name the claim gives the file of a task
WrittenAs(f) == IF EndsWithWavAnyCase(f) THEN f ELSE f \o DOT_WAV

\* the names of the files written
WrittenNames == {file[2] : file \in files}

\* "line01" and "line02.WAV"
LINE01 == <<108, 105, 110, 101, 48, 49>>

LINE02_WAV == <<108, 105, 110, 101, 48, 50, 46, 87, 65, 86>>

\* C12: the file of a task is written under the task's filename with ".wav"
\* appended exactly when the filename does not end with ".wav" in any case:
\* "line01" is written as "line01.wav" and "line02.WAV" as it is, and coercing
\* the written name again leaves it unchanged
C12_WavAppendedOnce ==
    \A w \in 1..Len(workers) :
        LET r == workers[w]
            f == r.tasks[1].filename
        IN Places(r, "wrote", 0) # {} =>
              /\ WrittenNames = {WrittenAs(f)}
              /\ f = LINE01 => WrittenNames = {LINE01 \o DOT_WAV}
              /\ f = LINE02_WAV => WrittenNames = {LINE02_WAV}
              /\ \A name \in WrittenNames : CoerceFilename(name) = name

\* C12 witness: the file of the task named "line02.WAV" is written, under
\* that name
C12_Witness ==
    /\ workers[1].tasks[1].filename = LINE02_WAV
    /\ Places(workers[1], "wrote", 0) # {}
    /\ files = {<<OUT_DIR, LINE02_WAV>>}

-----------------------------------------------------------------------------
(* generate_all and the user's actions while it runs: claim C13 (SpecShared) *)

\* C13: nothing the user does while a batch runs (reconnecting, choosing
\* another output folder) changes what the remaining tasks use: the tasks keep
\* their style ids, and every file the batch writes goes to the folder "out",
\* which was the output folder when the batch was started
C13_BatchKeepsItsSettings ==
    [][/\ \A w \in 1..Len(workers) : workers'[w].tasks = workers[w].tasks
       /\ \A file \in files' \ files : file[1] = OUT_DIR]_vars

-----------------------------------------------------------------------------
(* generate_voices, the style of a task: claim C14 (SpecBuild) *)

\* the entry of voice_combos of a character
ComboOf(character) ==
    voice_combos[CHOOSE c \in 1..Len(voice_combos) :
                     voice_combos[c].character = character]

\* "yo"
YO == <<121, 111>>

\* 大好き
DAISUKI == <<22823, 22909, 12365>>

\* C14: with auto-emotion on, the style of every task is the one analyze picks
\* from the task's dialogue and the styles of the speaker assigned to its
\* character, whatever style was chosen by hand (大好き spoken by 四国めたん is
\* あまあま, "yo" spoken by ずんだもん is ノーマル although ツンツン was chosen);
\* with auto-emotion off, it is the style chosen by hand, whatever the dialogue
C14_StyleFollowsAutoEmotion ==
    \A w \in 1..Len(workers) : \A n \in 1..Len(workers[w].tasks) :
        LET t == workers[w].tasks[n]
            combo == ComboOf(t.character)
        IN /\ t.speaker = combo.speaker
           /\ auto_emotion =>
                 /\ t.style = analyze(t.dialogue,
                                      StylesOf(speaker_styles, combo.speaker))
                 /\ (combo = ComboA /\ t.dialogue = DAISUKI) => t.style = AMAAMA
                 /\ (combo = ComboB /\ t.dialogue = YO) => t.style = NORMAL_JA
           /\ ~auto_emotion => t.style = combo.style

\* C14 witness: auto-emotion is on, ツンツン was chosen by hand for B, and a
\* task of B carries ノーマル; A's task for 大好き carries あまあま
C14_Witness ==
    /\ auto_emotion
    /\ voice_combos = <<ComboA, ComboB>>
    /\ Len(workers) = 1
    /\ \E n \in 1..Len(workers[1].tasks) :
          /\ workers[1].tasks[n].character = CHAR_B
          /\ workers[1].tasks[n].style = NORMAL_JA
    /\ \E n \in 1..Len(workers[1].tasks) :
          /\ workers[1].tasks[n].character = CHAR_A
          /\ workers[1].tasks[n].style = AMAAMA

-----------------------------------------------------------------------------
(* generate_speech, the two requests of a task: claim C15 (SpecBatch) *)

\* the exceptions thread r caught for task k that generate_speech raised
SpeechErrorsOf(r, k) ==
    {m \in 1..Len(r.caught) :
        r.caught[m].i = k /\ r.caught[m].e.message = "speech generation failed"}

-----------------------------------------------------------------------------
(* generate_voices, the style id of a task: claims C16, C17 (SpecResolve) *)

\* the step starts a batch
Building == Len(workers') = Len(workers) + 1

\* the tasks of the batch the step starts
Built == workers'[Len(workers')].tasks

\* the (style name, style id) pairs the catalog has for a speaker: none when
\* the catalog does not have the speaker
PairsOf(speaker) ==
    UNION {{speaker_styles[j].styles[n] : n \in 1..Len(speaker_styles[j].styles)} :
              j \in {i \in 1..Len(speaker_styles) : speaker_styles[i].name = speaker}}

\* the (speaker, style) pair of the task is not in the catalog
Unresolved(t) == \A pair \in PairsOf(t.speaker) : pair[1] # t.style

\* the characters of the rows that yield a task, character by character in
\* the order of voice_combos
CharactersOfRows ==
    Flatten([c \in 1..Len(voice_combos) |->
                LET rows == get_rows_for_character(excel_reader, char_column,
                                voice_combos[c].character, dialogue_column,
                                filename_column, start_row)
                IN [j \in 1..Len(rows) |-> voice_combos[c].character]])

\* C16: style resolution never fails the construction of a task: when the
\* speaker of a task is not in the catalog, or has no style of the task's
\* style name, the task carries the default id 0, and a task is emitted for
\* every row all the same
C16_UnresolvedStyleGetsDefault ==
    [][Building =>
          /\ \A n \in 1..Len(Built) : Unresolved(Built[n]) => Built[n].style_id = 0
          /\ [n \in 1..Len(Built) |-> Built[n].character] = CharactersOfRows]_vars

\* C16 witness: the catalog has lost ずんだもん, the voice assigned to B, and
\* the batch built from A's and B's rows has a task of B with the id 0
C16_Witness ==
    /\ speaker_styles = EngineWithoutZundamon
    /\ voice_combos = <<ComboA, ComboB>>
    /\ Len(workers) = 1
    /\ Len(workers[1].tasks) = 3
    /\ workers[1].tasks[3].speaker = ZUNDAMON
    /\ workers[1].tasks[3].style_id = 0

\* C17 as claimed: every task of a batch carries the id of one of the styles
\* the current catalog has for the speaker assigned to the task's character
C17_StyleIdOfAssignedSpeaker ==
    [][Building =>
          \A n \in 1..Len(Built) :
              \E pair \in PairsOf(Built[n].speaker) : pair[2] = Built[n].style_id]_vars

\* C17 as amended: every task of a batch carries the id the current catalog
\* gives the task's style name for the speaker assigned to the task's
\* character, which with auto-emotion on is the name analyze picked among
\* that speaker's styles, whenever the catalog has the speaker with a style
\* of that name; otherwise it carries the default id 0
C17_StyleIdOfSpeakerOrDefault ==
    [][Building =>
          \A n \in 1..Len(Built) :
              LET t == Built[n]
              IN /\ t.speaker = ComboOf(t.character).speaker
                 /\ \/ <<t.style, t.style_id>> \in PairsOf(t.speaker)
                    \/ Unresolved(t) /\ t.style_id = 0
                 /\ (auto_emotion /\ PairsOf(t.speaker) # {}) =>
                       <<t.style, t.style_id>> \in PairsOf(t.speaker)]_vars

\* C17 witness: ツンツン, chosen by hand for B, has gone from the catalog: B's
\* task carries 0, the id of 四国めたん's あまあま, while A's tasks carry 2,
\* the id of 四国めたん's ノーマル
C17_Witness ==
    /\ ~auto_emotion
    /\ speaker_styles = EngineWithoutTsuntsun
    /\ voice_combos = <<ComboA, ComboB>>
    /\ Len(workers) = 1
    /\ Len(workers[1].tasks) = 3
    /\ workers[1].tasks[1].style_id = 2
    /\ workers[1].tasks[3].style = TSUNTSUN
    /\ workers[1].tasks[3].style_id = 0

====
